---- MODULE Spec2Model ----
(***************************************************************************)
(* DeepPhysX.Sofa: one worker process.  The launcher script                *)
(* (launcherSofaEnvironment.py) parses argv, imports the environment class,*)
(* creates a TcpIpClient and runs client.initialize() and client.launch(). *)
(* The environment is one of the two LiverTraining classes: the coincident *)
(* representation (FC) or the grid-mapped one (UNet).  The process is      *)
(* single threaded: one program counter pc covers the launcher, the        *)
(* initialization of the session and the step loop with the handlers       *)
(* onSimulationInitDoneEvent / onAnimateEndEvent / apply_prediction.       *)
(*                                                                         *)
(* Python arrays are functions on 0..n-1; an (n, 3) array is a function    *)
(* from 0..n-1 to triples of integers; None is the empty tuple and an      *)
(* optional value x is the one-element tuple <<x>>.                        *)
(***************************************************************************)
EXTENDS Integers, Sequences, FiniteSets, TLC

VARIABLES
    argv,              \* sys.argv: argv[k+1] is Python's argv[k]
    mesh,              \* the scene description the environment's file loads
    pc,                \* position of the (single) thread of the process
    stdout,            \* lines printed so far
    exit_code,         \* None while running, <<code>> once the process ended
    error,             \* None, or <<name>> of the exception raised
    Environment,       \* the class bound to the name Environment
    client,            \* None, or <<the TcpIpClient's constructor arguments>>
    calls,             \* client methods called so far, in order
    phase,             \* WorkerSession state
    instance_id,       \* self.instance_id  (None before construction)
    instance_nb,       \* self.instance_nb
    create_model,      \* self.create_model
    training_fields,   \* fields declared by define_training_fields
    input_size,        \* FC: self.input_size
    output_size,       \* FC: self.output_size
    data_size,         \* UNet: self.data_size
    force_field,       \* self.force_field, a list
    f_position,        \* f_sparse_grid_mo.position
    f_rest_position,   \* f_sparse_grid_mo.rest_position
    n_position,        \* n_sparse_grid_mo.position
    n_rest_position,   \* n_sparse_grid_mo.rest_position
    input_arg,         \* value of compute_input() in the running handler
    output_arg,        \* value of compute_output() in the running handler
    training_data,     \* None, or <<the sample given to set_training_data>>
    nb_samples,        \* number of calls of set_training_data
    prediction,        \* None, or <<flat prediction received for this step>>
    step_log,          \* the events of the current step, in order
    visu,              \* visualization sink: mesh objects and update count
    nb_nodes_regular_grid,    \* UNet: self.nb_nodes_regular_grid
    idx_sparse_to_regular,    \* UNet: self.idx_sparse_to_regular
    regular_grid_rest_shape   \* UNet: self.regular_grid_rest_shape

vars == <<argv, mesh, pc, stdout, exit_code, error, Environment, client, calls,
          phase, instance_id, instance_nb, create_model, training_fields,
          input_size, output_size, data_size, force_field, f_position,
          f_rest_position, n_position, n_rest_position, input_arg, output_arg,
          training_data, nb_samples, prediction, step_log, visu,
          nb_nodes_regular_grid, idx_sparse_to_regular,
          regular_grid_rest_shape>>

launcher_vars == <<stdout, exit_code, Environment, client, calls>>

session_vars == <<instance_id, instance_nb, create_model, training_fields,
                  input_size, output_size, data_size, nb_nodes_regular_grid,
                  idx_sparse_to_regular, regular_grid_rest_shape>>

simulation_vars == <<force_field, f_position, f_rest_position, n_position,
                     n_rest_position>>

step_vars == <<input_arg, output_arg, training_data, nb_samples, prediction,
               step_log>>

----------------------------------------------------------------------------
\* Bounds of the model

\* steps of the loop a session may run
MaxSteps == 2

----------------------------------------------------------------------------
\* Values

None == << >>

Some(x) == <<x>>

Zero3 == <<0, 0, 0>>

\* the length of a 0-based array
Size(A) == Cardinality(DOMAIN A)

\* numpy.zeros(shape) for a shape (n, 3)
zeros(shape) == [i \in 0 .. shape[1] - 1 |-> Zero3]

\* ndarray.shape of an (n, 3) array
shape(A) == <<Size(A), 3>>

\* number of scalars of an array of the given shape
product(sh) == sh[1] * sh[2]

Add3(a, b) == <<a[1] + b[1], a[2] + b[2], a[3] + b[3]>>

Sub3(a, b) == <<a[1] - b[1], a[2] - b[2], a[3] - b[3]>>

\* elementwise a - b and a + b of two arrays of the same shape
subtract(A, B) == [i \in DOMAIN A |-> Sub3(A[i], B[i])]

add(A, B) == [i \in DOMAIN A |-> Add3(A[i], B[i])]

\* numpy.linalg.norm(v) == 0. for a vector v: the sum of squares is zero
NormIsZero(v) == v[1] * v[1] + v[2] * v[2] + v[3] * v[3] = 0

\* the flat view of an (n, 3) array, row major
Flatten(A) == [k \in 0 .. 3 * Size(A) - 1 |-> A[k \div 3][(k % 3) + 1]]

\* numpy.reshape(flat, shape): a ValueError unless the sizes agree
ReshapeFails(flat, sh) == Size(flat) # product(sh)

reshape(flat, sh) ==
    [i \in 0 .. sh[1] - 1 |-> <<flat[3 * i], flat[3 * i + 1], flat[3 * i + 2]>>]

----------------------------------------------------------------------------
\* The launcher's parsing of its arguments.  A numeric argument and the
\* visualization argument are sequences of characters.

Digits == {"0", "1", "2", "3", "4", "5", "6", "7", "8", "9"}

DigitValue(c) ==
    CASE c = "0" -> 0 [] c = "1" -> 1 [] c = "2" -> 2 [] c = "3" -> 3
      [] c = "4" -> 4 [] c = "5" -> 5 [] c = "6" -> 6 [] c = "7" -> 7
      [] c = "8" -> 8 [] c = "9" -> 9

\* Python's argv[k]
Argv(k) == argv[k + 1]

\* the digits of an integer literal, after its optional sign
IntBody(tok) ==
    IF Len(tok) > 0 /\ tok[1] \in {"-", "+"} THEN Tail(tok) ELSE tok

\* int(tok) raises ValueError unless tok is [+-]digits
IntFails(tok) ==
    \/ Len(IntBody(tok)) = 0
    \/ \E k \in 1 .. Len(IntBody(tok)) : IntBody(tok)[k] \notin Digits

RECURSIVE DigitsValue(_)
DigitsValue(ds) ==
    IF ds = << >> THEN 0
    ELSE 10 * DigitsValue(SubSeq(ds, 1, Len(ds) - 1)) + DigitValue(ds[Len(ds)])

\* int(tok) for a literal that parses
int(tok) ==
    IF Len(tok) > 0 /\ tok[1] = "-" THEN 0 - DigitsValue(IntBody(tok))
    ELSE DigitsValue(IntBody(tok))

\* s[1:-1]
StripEnds(s) == SubSeq(s, 2, Len(s) - 1)

\* s.split(', ')
RECURSIVE Split(_)
Split(s) ==
    LET cuts == {k \in 1 .. Len(s) - 1 : s[k] = "," /\ s[k + 1] = " "}
    IN  IF cuts = {} THEN <<s>>
        ELSE LET k == CHOOSE c \in cuts : \A d \in cuts : c <= d
             IN  <<SubSeq(s, 1, k - 1)>> \o Split(SubSeq(s, k + 2, Len(s)))

NoneToken == <<"N", "o", "n", "e">>

\* line 22: None if argv[7] == 'None' else [s[1:-1] for s in argv[7][1:-1].split(', ')]
ParseVisualizationDb(tok) ==
    IF tok = NoneToken THEN None
    ELSE Some([k \in 1 .. Len(Split(StripEnds(tok))) |->
                  StripEnds(Split(StripEnds(tok))[k])])

\* lines 17-18: dirname(argv[1]) and argv[1].split(sep)[-1][:-3]; a path is the
\* sequence of its components and a file name a sequence of characters
dirname(path) == SubSeq(path, 1, Len(path) - 1)

module_name(path) == SubSeq(path[Len(path)], 1, Len(path[Len(path)]) - 3)

LiverTrainingPy ==
    <<"L", "i", "v", "e", "r", "T", "r", "a", "i", "n", "i", "n", "g", ".", "p", "y">>

LiverTrainingModule ==
    <<"L", "i", "v", "e", "r", "T", "r", "a", "i", "n", "i", "n", "g">>

FCDir == <<"Liver", "FC", "Environment">>

UNetDir == <<"Liver", "UNet", "Environment">>

\* the environment classes of the repository the import can find
ImportFails(path, class) ==
    ~ /\ dirname(path) \in {FCDir, UNetDir}
      /\ module_name(path) = LiverTrainingModule
      /\ class = "LiverTraining"

\* which LiverTraining the name Environment is bound to
Variant ==
    IF Environment.dir = FCDir THEN "FC"
    ELSE IF Environment.dir = UNetDir THEN "UNet"
    ELSE "SofaEnvironment"

----------------------------------------------------------------------------
\* The launcher, launcherSofaEnvironment.py

Raise(name) ==
    /\ error' = Some(name)
    /\ exit_code' = Some(1)
    /\ pc' = "raised"

\* line 11, with the argument count off: != written <
WrongArgumentCount_LessThan == Len(argv) < 8

\* line 11: if len(argv) != 8
WrongArgumentCount == Len(argv) # 8

\* lines 11-14: wrong number of arguments
LauncherUsage ==
    /\ pc = "start"
    /\ WrongArgumentCount
    /\ stdout' = Append(stdout, [line |-> "usage", arg |-> Argv(0)])
    /\ exit_code' = Some(1)
    /\ pc' = "exited"
    /\ UNCHANGED <<argv, mesh, error, Environment, client, calls, phase>>
    /\ UNCHANGED <<session_vars, simulation_vars, step_vars, visu>>

\* lines 17-19: import the environment class
LauncherImport ==
    /\ pc = "start"
    /\ ~WrongArgumentCount
    /\ IF ImportFails(Argv(1), Argv(2))
       THEN /\ Raise("ImportError")
            /\ UNCHANGED Environment
       ELSE /\ Environment' = [dir |-> dirname(Argv(1)), class |-> Argv(2)]
            /\ pc' = "imported"
            /\ UNCHANGED <<error, exit_code>>
    /\ UNCHANGED <<argv, mesh, stdout, client, calls, phase>>
    /\ UNCHANGED <<session_vars, simulation_vars, step_vars, visu>>

\* line 26: instance_id=int(argv[5])
LauncherInstanceId == int(Argv(5))

\* line 27, with the index of the wrong argument
LauncherInstanceNb_FromId == int(Argv(5))

\* line 27: instance_nb=int(argv[6])
LauncherInstanceNb == int(Argv(6))

\* lines 22-28: the arguments of the client, then the client
LauncherCreateClient ==
    /\ pc = "imported"
    /\ IF IntFails(Argv(4)) \/ IntFails(Argv(5)) \/ IntFails(Argv(6))
       THEN /\ Raise("ValueError")
            /\ UNCHANGED client
       ELSE /\ client' = Some([environment |-> Environment,
                               ip_address |-> Argv(3),
                               port |-> int(Argv(4)),
                               instance_id |-> LauncherInstanceId,
                               instance_nb |-> LauncherInstanceNb,
                               visualization_db |-> ParseVisualizationDb(Argv(7))])
            /\ pc' = "client"
            /\ UNCHANGED <<error, exit_code>>
    /\ UNCHANGED <<argv, mesh, stdout, Environment, calls, phase>>
    /\ UNCHANGED <<session_vars, simulation_vars, step_vars, visu>>

\* line 29: client.initialize() is called
LauncherInitialize ==
    /\ pc = "client"
    /\ calls' = Append(calls, "initialize")
    /\ pc' = "initialize"
    /\ UNCHANGED <<argv, mesh, stdout, exit_code, error, Environment, client, phase>>
    /\ UNCHANGED <<session_vars, simulation_vars, step_vars, visu>>

\* line 30: client.launch() is called
LauncherLaunch ==
    /\ pc = "initialized"
    /\ calls' = Append(calls, "launch")
    /\ pc' = "launch"
    /\ UNCHANGED <<argv, mesh, stdout, exit_code, error, Environment, client, phase>>
    /\ UNCHANGED <<session_vars, simulation_vars, step_vars, visu>>

\* line 33: the shutdown notice, then the script ends
LauncherShutdownNotice ==
    /\ pc = "launched"
    /\ stdout' = Append(stdout, [line |-> "shutdown", arg |-> Argv(3)])
    /\ exit_code' = Some(0)
    /\ pc' = "done"
    /\ UNCHANGED <<argv, mesh, error, Environment, client, calls, phase>>
    /\ UNCHANGED <<session_vars, simulation_vars, step_vars, visu>>

----------------------------------------------------------------------------
\* The scene.  A mesh gives the regular grid (cells per axis, origin, cell
\* size), the number of regular-grid nodes the data arrays cover, the rest
\* positions of the surface nodes and of the sparse-grid nodes, and the
\* surface node indices of each force field.

\* a 0-based array from a sequence
Array(seq) == [i \in 0 .. Len(seq) - 1 |-> seq[i + 1]]

Grid2x1x1 == [n |-> <<2, 1, 1>>, origin |-> <<0, 0, 0>>, size |-> 2]

MeshTiny ==
    [grid |-> Grid2x1x1,
     nb_nodes |-> 12,
     surface_rest_position |-> Array(<< <<1, 1, 1>> >>),
     sparse_rest_position |-> Array(<< <<2, 0, 0>> >>),
     force_indices |-> << <<0>> >>]

MeshA ==
    [grid |-> Grid2x1x1,
     nb_nodes |-> 12,
     surface_rest_position |-> Array(<< <<1, 1, 1>>, <<3, 1, 1>> >>),
     sparse_rest_position |-> Array(<< <<2, 0, 0>>, <<2, 2, 0>> >>),
     force_indices |-> << <<0>>, <<1>> >>]

MeshB ==
    [grid |-> Grid2x1x1,
     nb_nodes |-> 10,
     surface_rest_position |-> Array(<< <<1, 1, 1>>, <<3, 1, 0>>, <<1, 0, 1>> >>),
     sparse_rest_position |-> Array(<< <<0, 0, 2>>, <<2, 2, 0>> >>),
     force_indices |-> << <<1, 0>>, <<1>> >>]

\* the forces a force field may carry and the displacements a node may have
ForceSet == {Zero3, <<0, -1, 0>>, <<2, 0, 1>>}

DispSet == {Zero3, <<1, 0, 0>>, <<0, -2, 1>>}

----------------------------------------------------------------------------
\* GridMapper: the regular grid of the mesh

\* the cell holding point p: floor division of the coordinates by the cell size
cell_index_containing(p) ==
    LET g == mesh.grid
        c == [a \in 1 .. 3 |-> (p[a] - g.origin[a]) \div g.size]
    IN  c[1] + g.n[1] * (c[2] + g.n[2] * c[3])

\* the node at lattice coordinates (i, j, k)
NodeId(i, j, k) ==
    LET g == mesh.grid
    IN  i + (g.n[1] + 1) * (j + (g.n[2] + 1) * k)

\* the 8 corner nodes of a cell, in the order of a trilinear hexahedron
node_indices_of(cell) ==
    LET g == mesh.grid
        i == cell % g.n[1]
        j == (cell \div g.n[1]) % g.n[2]
        k == cell \div (g.n[1] * g.n[2])
    IN  <<NodeId(i, j, k), NodeId(i + 1, j, k),
          NodeId(i + 1, j + 1, k), NodeId(i, j + 1, k),
          NodeId(i, j, k + 1), NodeId(i + 1, j, k + 1),
          NodeId(i + 1, j + 1, k + 1), NodeId(i, j + 1, k + 1)>>

\* the regular-grid node lying at a sparse-grid rest position
RegularNodeAt(p) ==
    LET g == mesh.grid
    IN  NodeId((p[1] - g.origin[1]) \div g.size,
               (p[2] - g.origin[2]) \div g.size,
               (p[3] - g.origin[3]) \div g.size)

\* the index table: each sparse-grid node's regular-grid node
sparse_to_regular_index_table ==
    [i \in DOMAIN mesh.sparse_rest_position |->
        RegularNodeAt(mesh.sparse_rest_position[i])]

\* A[idx] = values: numpy's scatter; of two rows of idx naming one slot the
\* later one stays
Scatter(A, idx, values) ==
    [node \in DOMAIN A |->
        LET rows == {i \in DOMAIN idx : idx[i] = node}
        IN  IF rows = {} THEN A[node]
            ELSE values[CHOOSE i \in rows : \A j \in rows : j <= i]]

\* A[idx]: numpy's gather
Gather(A, idx) == [i \in DOMAIN idx |-> A[idx[i]]]

----------------------------------------------------------------------------
\* SampleExtractor and PredictionApplier of the two LiverTraining classes

\* FC line 64, with the shape read from the surface instead of the sparse grid
FC_output_size_Surface == shape(mesh.surface_rest_position)

\* FC lines 63-64: the data shapes
FC_input_size == shape(mesh.surface_rest_position)

FC_output_size == shape(n_position)

\* FC line 86, one row, with the zero test of the grid-mapped variant
AssignRow_FirstWins(F, index, force) ==
    IF NormIsZero(F[index]) THEN [F EXCEPT ![index] = force] ELSE F

\* FC line 86, one row: F[index] = force
AssignRow(F, index, force) == [F EXCEPT ![index] = force]

\* FC line 86: F[cff.indices] = cff.forces, from row k on
RECURSIVE AssignRows(_, _, _, _)
AssignRows(F, indices, forces, k) ==
    IF k > Len(indices) THEN F
    ELSE AssignRows(AssignRow(F, indices[k], forces[k]), indices, forces, k + 1)

\* FC lines 85-86: for cff in self.force_field, from field k on
RECURSIVE FC_EncodeFields(_, _, _)
FC_EncodeFields(F, fields, k) ==
    IF k > Len(fields) THEN F
    ELSE FC_EncodeFields(AssignRows(F, fields[k].indices, fields[k].forces, 1),
                         fields, k + 1)

\* FC lines 78-87
FC_compute_input == FC_EncodeFields(zeros(input_size), force_field, 1)

\* FC lines 89-96
FC_compute_output == subtract(f_position, f_rest_position)

\* UNet lines 84-85, without the zero test
EncodeNode_Overwrite(F, node, force) ==
    IF node < nb_nodes_regular_grid THEN [F EXCEPT ![node] = force] ELSE F

\* UNet lines 84-85: one corner node of the cell
EncodeNode(F, node, force) ==
    IF node < nb_nodes_regular_grid /\ NormIsZero(F[node])
    THEN [F EXCEPT ![node] = force]
    ELSE F

\* UNet lines 83-85: for node in self.regular_grid.node_indices_of(cell),
\* from corner k on
RECURSIVE EncodeNodes(_, _, _, _)
EncodeNodes(F, nodes, force, k) ==
    IF k > Len(nodes) THEN F
    ELSE EncodeNodes(EncodeNode(F, nodes[k], force), nodes, force, k + 1)

\* UNet lines 80-81: the cell of the surface node i
CellOfSurfaceNode(i) == cell_index_containing(mesh.surface_rest_position[i])

\* UNet lines 78-85: for i in force_field.indices.value, from index k on
RECURSIVE EncodeIndices(_, _, _, _)
EncodeIndices(F, indices, force, k) ==
    IF k > Len(indices) THEN F
    ELSE EncodeIndices(EncodeNodes(F, node_indices_of(CellOfSurfaceNode(indices[k])),
                                   force, 1),
                       indices, force, k + 1)

\* UNet lines 77-85: for force_field in self.force_field, from field k on
RECURSIVE UNet_EncodeFields(_, _, _)
UNet_EncodeFields(F, fields, k) ==
    IF k > Len(fields) THEN F
    ELSE UNet_EncodeFields(EncodeIndices(F, fields[k].indices, fields[k].force, 1),
                           fields, k + 1)

\* UNet lines 68-86
UNet_compute_input == UNet_EncodeFields(zeros(data_size), force_field, 1)

\* UNet lines 88-96
UNet_compute_output ==
    subtract(Scatter(zeros(data_size), idx_sparse_to_regular, f_position),
             regular_grid_rest_shape)

\* numpy.resize in the place of numpy.reshape: the flat array is cut, or
\* repeated, to the size of the shape
Resized(flat, sh) ==
    IF Size(flat) = 0 THEN Some(zeros(sh))
    ELSE Some([i \in 0 .. sh[1] - 1 |->
                  <<flat[(3 * i) % Size(flat)], flat[(3 * i + 1) % Size(flat)],
                    flat[(3 * i + 2) % Size(flat)]>>])

\* numpy.reshape(prediction['prediction'], shape): None stands for the
\* ValueError raised when the flat length is not the product of the shape
Reshaped(flat, sh) ==
    IF ReshapeFails(flat, sh) THEN None ELSE Some(reshape(flat, sh))

\* FC line 105: the new position buffer of the prediction model
FC_applied(U) == add(n_rest_position, U)

\* UNet lines 105-106, without the index table: the first rows of U
UNet_applied_NoGather(U) ==
    add(n_rest_position, [i \in DOMAIN n_rest_position |-> U[i]])

\* UNet lines 105-106
UNet_applied(U) == add(n_rest_position, Gather(U, idx_sparse_to_regular))

\* the shapes the session declared at its initialization
DeclaredInputShape == IF Variant = "FC" THEN input_size ELSE data_size

DeclaredOutputShape == IF Variant = "FC" THEN output_size ELSE data_size

----------------------------------------------------------------------------
\* The session: client.initialize()

DefaultInstanceId == 1

DefaultInstanceNb == 1

\* LiverTraining.__init__(as_tcp_ip_client, instance_id, instance_nb)
Construct(id, nb) ==
    /\ instance_id' = Some(id)
    /\ instance_nb' = Some(nb)
    /\ create_model' = Some([fem |-> TRUE, nn |-> TRUE])
    /\ input_size' = None
    /\ output_size' = None

\* Disconnected -> Connected: the transport is opened and the identity sent
ClientConnect ==
    /\ pc = "initialize"
    /\ phase = "Disconnected"
    /\ phase' = "Connected"
    /\ pc' = "connected"
    /\ UNCHANGED <<argv, mesh, launcher_vars, error>>
    /\ UNCHANGED <<session_vars, simulation_vars, step_vars, visu>>

\* the client constructs the environment with its own identity
EnvironmentConstruct ==
    /\ pc = "connected"
    /\ Construct(client[1].instance_id, client[1].instance_nb)
    /\ pc' = "constructed"
    /\ UNCHANGED <<argv, mesh, launcher_vars, error, phase, training_fields>>
    /\ UNCHANGED <<data_size, nb_nodes_regular_grid, idx_sparse_to_regular>>
    /\ UNCHANGED <<regular_grid_rest_shape, simulation_vars, step_vars, visu>>

\* LiverTraining() with the default arguments, outside any client
DirectConstruct ==
    /\ pc = "direct"
    /\ Construct(DefaultInstanceId, DefaultInstanceNb)
    /\ pc' = "direct_done"
    /\ UNCHANGED <<argv, mesh, launcher_vars, error, phase, training_fields>>
    /\ UNCHANGED <<data_size, nb_nodes_regular_grid, idx_sparse_to_regular>>
    /\ UNCHANGED <<regular_grid_rest_shape, simulation_vars, step_vars, visu>>

\* the scene graph is created from the mesh: two models of the liver, at rest
CreateSimulation ==
    /\ pc = "constructed"
    /\ force_field' = [k \in 1 .. Len(mesh.force_indices) |->
                          [indices |-> mesh.force_indices[k],
                           force |-> Zero3,
                           forces |-> [j \in 1 .. Len(mesh.force_indices[k]) |-> Zero3]]]
    /\ f_rest_position' = mesh.sparse_rest_position
    /\ f_position' = mesh.sparse_rest_position
    /\ n_rest_position' = mesh.sparse_rest_position
    /\ n_position' = mesh.sparse_rest_position
    /\ pc' = "created"
    /\ UNCHANGED <<argv, mesh, launcher_vars, error, phase>>
    /\ UNCHANGED <<session_vars, step_vars, visu>>

\* FC lines 57-64: onSimulationInitDoneEvent
FC_onSimulationInitDoneEvent ==
    /\ pc = "created"
    /\ Variant = "FC"
    /\ input_size' = FC_input_size
    /\ output_size' = FC_output_size
    /\ pc' = "sim_init"
    /\ UNCHANGED <<argv, mesh, launcher_vars, error, phase>>
    /\ UNCHANGED <<instance_id, instance_nb, create_model, training_fields>>
    /\ UNCHANGED <<data_size, nb_nodes_regular_grid, idx_sparse_to_regular>>
    /\ UNCHANGED <<regular_grid_rest_shape, simulation_vars, step_vars, visu>>

\* UNet: the index table, the rest shape on the regular grid, the data shape
UNet_onSimulationInitDoneEvent ==
    /\ pc = "created"
    /\ Variant = "UNet"
    /\ nb_nodes_regular_grid' = mesh.nb_nodes
    /\ data_size' = <<mesh.nb_nodes, 3>>
    /\ idx_sparse_to_regular' = sparse_to_regular_index_table
    /\ regular_grid_rest_shape' =
           Scatter(zeros(<<mesh.nb_nodes, 3>>), sparse_to_regular_index_table,
                   f_rest_position)
    /\ pc' = "sim_init"
    /\ UNCHANGED <<argv, mesh, launcher_vars, error, phase>>
    /\ UNCHANGED <<instance_id, instance_nb, create_model, training_fields>>
    /\ UNCHANGED <<input_size, output_size, simulation_vars, step_vars, visu>>

\* define_training_fields with the second field forgotten
TrainingFields_OnlyInput == <<[name |-> "input", type |-> "ndarray"]>>

\* the fields of the call of define_training_fields
TrainingFields ==
    <<[name |-> "input", type |-> "ndarray"],
      [name |-> "ground_truth", type |-> "ndarray"]>>

\* init_database
InitDatabase ==
    /\ pc = "sim_init"
    /\ training_fields' = TrainingFields
    /\ pc' = "database"
    /\ UNCHANGED <<argv, mesh, launcher_vars, error, phase>>
    /\ UNCHANGED <<instance_id, instance_nb, create_model, input_size>>
    /\ UNCHANGED <<output_size, data_size, nb_nodes_regular_grid>>
    /\ UNCHANGED <<idx_sparse_to_regular, regular_grid_rest_shape>>
    /\ UNCHANGED <<simulation_vars, step_vars>>
    /\ UNCHANGED visu

\* init_visualization: add_mesh; the object gets the next id, 0 for the first;
\* client.initialize() returns
InitVisualization ==
    /\ pc = "database"
    /\ visu' = [visu EXCEPT !.objects =
                    Append(@, [at |-> instance_id[1], c |-> "green"])]
    /\ phase' = "Initialized"
    /\ pc' = "initialized"
    /\ UNCHANGED <<argv, mesh, launcher_vars, error>>
    /\ UNCHANGED <<session_vars, simulation_vars, step_vars>>

----------------------------------------------------------------------------
\* The session: client.launch(), the step loop

\* Initialized -> Stepping
SessionStart ==
    /\ pc = "launch"
    /\ phase' = "Stepping"
    /\ pc' = "idle"
    /\ UNCHANGED <<argv, mesh, launcher_vars, error>>
    /\ UNCHANGED <<session_vars, simulation_vars, step_vars, visu>>

\* the simulation engine advances one time step: new forces, new positions of
\* the ground-truth model
Advance ==
    /\ pc = "idle"
    /\ phase = "Stepping"
    /\ nb_samples < MaxSteps
    /\ \E d \in [DOMAIN f_rest_position -> DispSet] :
           f_position' = add(f_rest_position, d)
    /\ \E fs \in [DOMAIN force_field -> UNION {[1 .. n -> ForceSet] : n \in 1 .. 2}] :
           /\ \A k \in DOMAIN force_field :
                  Len(fs[k]) = IF Variant = "FC" THEN Len(force_field[k].indices) ELSE 1
           /\ force_field' = [k \in DOMAIN force_field |->
                                 IF Variant = "FC"
                                 THEN [force_field[k] EXCEPT !.forces = fs[k]]
                                 ELSE [force_field[k] EXCEPT !.force = fs[k][1]]]
    /\ step_log' = <<"advance">>
    /\ input_arg' = None
    /\ output_arg' = None
    /\ prediction' = None
    /\ pc' = "animate_end"
    /\ UNCHANGED <<argv, mesh, launcher_vars, error, phase, session_vars>>
    /\ UNCHANGED <<f_rest_position, n_position, n_rest_position>>
    /\ UNCHANGED <<training_data, nb_samples, visu>>

\* onAnimateEndEvent: the first argument of set_training_data
ComputeInput ==
    /\ pc = "animate_end"
    /\ input_arg' = Some(IF Variant = "FC" THEN FC_compute_input
                         ELSE UNet_compute_input)
    /\ step_log' = Append(step_log, "compute_input")
    /\ pc' = "input"
    /\ UNCHANGED <<argv, mesh, launcher_vars, error, phase, session_vars>>
    /\ UNCHANGED <<simulation_vars, output_arg, training_data, nb_samples>>
    /\ UNCHANGED <<prediction, visu>>

\* compute_output subtracting in place, in the buffer of the ground-truth model
ComputeOutput_InPlace ==
    /\ pc = "input"
    /\ output_arg' = Some(IF Variant = "FC" THEN FC_compute_output
                          ELSE UNet_compute_output)
    /\ f_position' = subtract(f_position, f_rest_position)
    /\ step_log' = Append(step_log, "compute_output")
    /\ pc' = "output"
    /\ UNCHANGED <<argv, mesh, launcher_vars, error, phase, session_vars>>
    /\ UNCHANGED <<force_field, f_rest_position, n_position, n_rest_position>>
    /\ UNCHANGED <<input_arg, training_data, nb_samples, prediction, visu>>

\* onAnimateEndEvent: the second argument of set_training_data
ComputeOutput ==
    /\ pc = "input"
    /\ output_arg' = Some(IF Variant = "FC" THEN FC_compute_output
                          ELSE UNet_compute_output)
    /\ step_log' = Append(step_log, "compute_output")
    /\ pc' = "output"
    /\ UNCHANGED <<argv, mesh, launcher_vars, error, phase, session_vars>>
    /\ UNCHANGED <<simulation_vars, input_arg, training_data, nb_samples>>
    /\ UNCHANGED <<prediction, visu>>

\* onAnimateEndEvent: set_training_data(input=..., ground_truth=...)
SetTrainingData ==
    /\ pc = "output"
    /\ training_data' = Some([input |-> input_arg[1], ground_truth |-> output_arg[1]])
    /\ nb_samples' = nb_samples + 1
    /\ input_arg' = None
    /\ output_arg' = None
    /\ step_log' = Append(step_log, "set_training_data")
    /\ pc' = "sent"
    /\ UNCHANGED <<argv, mesh, launcher_vars, error, phase, session_vars>>
    /\ UNCHANGED <<simulation_vars, prediction, visu>>

\* update_visual: factory.update_mesh(object_id=0, positions=...)
UpdateMesh ==
    /\ pc = "sent"
    /\ visu' = [visu EXCEPT !.updated = 0]
    /\ step_log' = Append(step_log, "update_mesh")
    /\ pc' = "mesh"
    /\ UNCHANGED <<argv, mesh, launcher_vars, error, phase, session_vars>>
    /\ UNCHANGED <<simulation_vars, input_arg, output_arg, training_data>>
    /\ UNCHANGED <<nb_samples, prediction>>

\* update_visual: self.update_visualisation(); onAnimateEndEvent returns
UpdateVisualisation ==
    /\ pc = "mesh"
    /\ visu' = [visu EXCEPT !.sent = nb_samples]
    /\ step_log' = Append(step_log, "update_visualisation")
    /\ pc' = "stepped"
    /\ UNCHANGED <<argv, mesh, launcher_vars, error, phase, session_vars>>
    /\ UNCHANGED <<simulation_vars, input_arg, output_arg, training_data>>
    /\ UNCHANGED <<nb_samples, prediction>>

\* the flat arrays the remote side may send back for the sample of this step:
\* the ground truth itself, zeros, and arrays one scalar short or long
PredictionChoices ==
    LET gt == Flatten(training_data[1].ground_truth)
        n == Size(gt)
    IN  {gt,
         [k \in 0 .. n - 1 |-> 0],
         [k \in 0 .. n - 2 |-> gt[k]],
         [k \in 0 .. n |-> IF k < n THEN gt[k] ELSE 0]}

\* the sample goes to the transport, which keeps no copy here, and the remote
\* side returns a prediction for the step
ReceivePrediction ==
    /\ pc = "stepped"
    /\ \E p \in PredictionChoices : prediction' = Some(p)
    /\ training_data' = None
    /\ pc' = "prediction"
    /\ UNCHANGED <<argv, mesh, launcher_vars, error, phase, session_vars>>
    /\ UNCHANGED <<simulation_vars, input_arg, output_arg>>
    /\ UNCHANGED <<nb_samples, step_log, visu>>

\* the sample goes to the transport and the remote side returns no prediction
NoPrediction ==
    /\ pc = "stepped"
    /\ training_data' = None
    /\ pc' = "idle"
    /\ UNCHANGED <<argv, mesh, launcher_vars, error, phase, session_vars>>
    /\ UNCHANGED <<simulation_vars, input_arg, output_arg>>
    /\ UNCHANGED <<nb_samples, prediction, step_log, visu>>

\* apply_prediction(prediction)
ApplyPrediction ==
    /\ pc = "prediction"
    /\ LET U == Reshaped(prediction[1], DeclaredOutputShape)
       IN  IF U = None
           THEN /\ error' = Some("ValueError")
                /\ phase' = "ShuttingDown"
                /\ pc' = "closing"
                /\ UNCHANGED <<n_position, step_log>>
           ELSE /\ n_position' = IF Variant = "FC" THEN FC_applied(U[1])
                                 ELSE UNet_applied(U[1])
                /\ step_log' = Append(step_log, "apply_prediction")
                /\ pc' = "idle"
                /\ UNCHANGED <<error, phase>>
    /\ UNCHANGED <<argv, mesh, launcher_vars, session_vars>>
    /\ UNCHANGED <<force_field, f_position, f_rest_position, n_rest_position>>
    /\ UNCHANGED <<input_arg, output_arg, training_data, nb_samples>>
    /\ UNCHANGED <<prediction, visu>>

\* Stepping -> ShuttingDown: a close request, or the step limit
Shutdown ==
    /\ pc = "idle"
    /\ phase = "Stepping"
    /\ phase' = "ShuttingDown"
    /\ pc' = "closing"
    /\ UNCHANGED <<argv, mesh, launcher_vars, error>>
    /\ UNCHANGED <<session_vars, simulation_vars, step_vars, visu>>

\* ShuttingDown -> Closed: client.launch() returns, or the error leaves it
Close ==
    /\ pc = "closing"
    /\ phase' = "Closed"
    /\ IF error = None
       THEN pc' = "launched" /\ UNCHANGED exit_code
       ELSE pc' = "raised" /\ exit_code' = Some(1)
    /\ UNCHANGED <<argv, mesh, stdout, error, Environment, client, calls>>
    /\ UNCHANGED <<session_vars, simulation_vars, step_vars, visu>>

----------------------------------------------------------------------------
\* Specifications

\* the state of a process that has not started yet
NotStarted ==
    /\ stdout = << >>
    /\ exit_code = None
    /\ error = None
    /\ client = None
    /\ calls = << >>
    /\ phase = "Disconnected"
    /\ instance_id = None
    /\ instance_nb = None
    /\ create_model = None
    /\ training_fields = << >>
    /\ input_size = None
    /\ output_size = None
    /\ data_size = None
    /\ nb_nodes_regular_grid = 0
    /\ idx_sparse_to_regular = << >>
    /\ regular_grid_rest_shape = << >>
    /\ force_field = << >>
    /\ f_position = << >>
    /\ f_rest_position = << >>
    /\ n_position = << >>
    /\ n_rest_position = << >>
    /\ input_arg = None
    /\ output_arg = None
    /\ training_data = None
    /\ nb_samples = 0
    /\ prediction = None
    /\ step_log = << >>
    /\ visu = [objects |-> << >>, updated |-> None, sent |-> 0]

\* line 5: the name Environment before the import of the environment class
SofaEnvironment ==
    [dir |-> <<"DeepPhysX", "Sofa", "Environment">>, class |-> "SofaEnvironment"]

\* a process started through the launcher with the given arguments
Launched(paths, classes, ips, ports, ids, nbs, dbs, counts) ==
    /\ pc = "start"
    /\ Environment = SofaEnvironment
    /\ \E path \in paths, class \in classes, ip \in ips, port \in ports,
          id \in ids, nb \in nbs, db \in dbs, n \in counts :
           argv = SubSeq(<<"launcherSofaEnvironment.py", path, class, ip, port,
                           id, nb, db, "extra">>, 1, n)

\* an environment constructed with its default arguments
Direct ==
    /\ pc = "direct"
    /\ Environment \in {[dir |-> FCDir, class |-> "LiverTraining"],
                        [dir |-> UNetDir, class |-> "LiverTraining"]}
    /\ argv = <<"python3">>

FCPath == FCDir \o <<LiverTrainingPy>>

UNetPath == UNetDir \o <<LiverTrainingPy>>

VisuList ==
    <<"[", "'", "a", "'", ",", " ", "'", "b", "'", "]">>

\* sessions over the richer meshes, with arguments that parse
Init ==
    /\ NotStarted
    /\ mesh \in {MeshA, MeshB}
    /\ \/ Launched({FCPath, UNetPath}, {"LiverTraining"}, {"10.0.0.1"},
                   {<<"8", "0">>}, {<<"1">>}, {<<"2">>, <<"x">>}, {NoneToken},
                   {7, 8})
       \/ Direct

\* every kind of argument list, over the smallest mesh
InitLauncher ==
    /\ NotStarted
    /\ mesh = MeshTiny
    /\ \/ Launched({FCPath, UNetPath, FCDir \o <<NoneToken>>},
                   {"LiverTraining", "Liver"}, {"10.0.0.1", "localhost"},
                   {<<"8", "0">>, <<"p">>},
                   {<<"0">>, <<"1">>, <<"2">>, <<"-", "1">>, <<"1", "x">>},
                   {<<"1">>, <<"2">>, <<"0">>, << >>},
                   {NoneToken, VisuList},
                   {7, 8, 9})
       \/ Direct

Next ==
    \/ LauncherUsage
    \/ LauncherImport
    \/ LauncherCreateClient
    \/ LauncherInitialize
    \/ ClientConnect
    \/ EnvironmentConstruct
    \/ DirectConstruct
    \/ CreateSimulation
    \/ FC_onSimulationInitDoneEvent
    \/ UNet_onSimulationInitDoneEvent
    \/ InitDatabase
    \/ InitVisualization
    \/ LauncherLaunch
    \/ SessionStart
    \/ Advance
    \/ ComputeInput
    \/ ComputeOutput
    \/ SetTrainingData
    \/ UpdateMesh
    \/ UpdateVisualisation
    \/ ReceivePrediction
    \/ NoPrediction
    \/ ApplyPrediction
    \/ Shutdown
    \/ Close
    \/ LauncherShutdownNotice

Spec == Init /\ [][Next]_vars

SpecLauncher == InitLauncher /\ [][Next]_vars

----------------------------------------------------------------------------
\* Properties

IsPrefix(s, t) == Len(s) <= Len(t) /\ s = SubSeq(t, 1, Len(s))

\* C1: a training sample is sent only in a session that is Stepping, after
\* client.initialize() returned and client.launch() was called, with the fields
\* input and ground_truth declared and the data shapes fixed; so none is sent
\* before Initialized is complete and none from ShuttingDown on.
LifecycleOrdering ==
    [][nb_samples' # nb_samples =>
           /\ phase = "Stepping"
           /\ phase' = "Stepping"
           /\ calls = <<"initialize", "launch">>
           /\ {training_fields[k].name : k \in DOMAIN training_fields}
                  = {"input", "ground_truth"}
           /\ DeclaredInputShape # None
           /\ DeclaredOutputShape # None]_vars

\* a session that sent a sample and was closed afterwards
SampleSentThenClosed == nb_samples >= 1 /\ phase = "Closed"

\* the two orders of a step the claim allows
ClaimedStepOrders ==
    {<<"advance", "compute_input", "compute_output", "set_training_data",
       "update_mesh", "update_visualisation">>,
     <<"advance", "compute_input", "compute_output", "set_training_data",
       "apply_prediction", "update_mesh", "update_visualisation">>}

\* C2: the events of a step occur in the order advance, compute_input,
\* compute_output, set_training_data, then apply_prediction if a prediction
\* came, then update_mesh and update_visualisation: the visualization update
\* never precedes the application of the step's prediction.
StepOrderAsClaimed == \E order \in ClaimedStepOrders : IsPrefix(step_log, order)

\* the launcher was given exactly 7 parameters
SevenParameters == Len(argv) = 8

\* the process went through the launcher
ThroughLauncher == pc \notin {"direct", "direct_done"}

UsageLine == [line |-> "usage", arg |-> Argv(0)]

ShutdownLine == [line |-> "shutdown", arg |-> Argv(3)]

\* what a launcher given a wrong number of parameters has done once it moved
UsageAndExit ==
    /\ stdout = <<UsageLine>>
    /\ exit_code = Some(1)
    /\ pc = "exited"
    /\ client = None
    /\ calls = << >>
    /\ Environment = SofaEnvironment
    /\ phase = "Disconnected"

\* C3 as stated: with a number of parameters other than 7 the launcher prints
\* the usage and ends with code 1, without a client, a connection, an import or
\* a shutdown notice; with exactly 7 it calls initialize() then launch() once
\* each and prints the shutdown notice after launch() returned.
LauncherAsClaimed ==
    ThroughLauncher =>
        /\ ~SevenParameters /\ pc # "start" => UsageAndExit
        /\ SevenParameters /\ exit_code # None =>
               /\ calls = <<"initialize", "launch">>
               /\ stdout = <<ShutdownLine>>
        /\ SevenParameters /\ ShutdownLine \in {stdout[k] : k \in DOMAIN stdout} =>
               pc = "done" /\ phase = "Closed"

\* C3 amended: with a number of parameters other than 7, as stated.  With
\* exactly 7 the usage is never printed, initialize() and launch() are called at
\* most once each, launch() only after initialize() returned, and the shutdown
\* notice with the ip address is printed only after launch() returned; both
\* calls and the notice are there whenever the process ends without an
\* exception.  A failed import or a port, instance id or instance count that is
\* no integer literal ends the launcher with an exception before any client is
\* created.
LauncherContract ==
    ThroughLauncher =>
        /\ ~SevenParameters /\ pc # "start" => UsageAndExit
        /\ SevenParameters =>
               /\ UsageLine \notin {stdout[k] : k \in DOMAIN stdout}
               /\ IsPrefix(calls, <<"initialize", "launch">>)
               /\ Len(calls) = 2 => phase \notin {"Disconnected", "Connected"}
               /\ stdout # << >> =>
                      /\ stdout = <<ShutdownLine>>
                      /\ pc = "done"
                      /\ calls = <<"initialize", "launch">>
                      /\ phase = "Closed"
               /\ exit_code # None /\ error = None =>
                      /\ pc = "done"
                      /\ exit_code = Some(0)
                      /\ stdout = <<ShutdownLine>>
               /\ \/ ImportFails(Argv(1), Argv(2))
                  \/ IntFails(Argv(4))
                  \/ IntFails(Argv(5))
                  \/ IntFails(Argv(6))
                  => client = None /\ calls = << >> /\ pc \in {"start", "imported", "raised"}

\* a launcher given 7 parameters that ran to its last line
LauncherCompleted ==
    /\ SevenParameters
    /\ pc = "done"
    /\ calls = <<"initialize", "launch">>
    /\ stdout = <<ShutdownLine>>

\* the nodes of the valid range a force field reaches through the cells of its
\* surface nodes
Reaches(k, node) ==
    \E j \in DOMAIN force_field[k].indices :
        \E c \in 1 .. 8 :
            node_indices_of(CellOfSurfaceNode(force_field[k].indices[j]))[c] = node

FirstOf(ks) == CHOOSE k \in ks : \A l \in ks : k <= l

LastOf(ks) == CHOOSE k \in ks : \A l \in ks : l <= k

\* C4 as stated: in the grid-mapped compute_input a corner node of the valid
\* range holds the force of the first force field that reached it, whatever the
\* force values, a first force of zero included.
FirstWriterWinsAsClaimed ==
    pc = "input" /\ Variant = "UNet" =>
        \A node \in 0 .. nb_nodes_regular_grid - 1 :
            LET ks == {k \in DOMAIN force_field : Reaches(k, node)}
            IN  ks # {} => input_arg[1][node] = force_field[FirstOf(ks)].force

\* C4 amended: a corner node of the valid range holds the force of the first
\* force field, in list order, that reached it with a force of nonzero norm,
\* and zero when there is none: a first force of exactly zero is overwritten by
\* the next nonzero one.
FirstNonZeroWriterWins ==
    pc = "input" /\ Variant = "UNet" =>
        \A node \in 0 .. nb_nodes_regular_grid - 1 :
            LET ks == {k \in DOMAIN force_field :
                          Reaches(k, node) /\ ~NormIsZero(force_field[k].force)}
            IN  input_arg[1][node] =
                    IF ks = {} THEN Zero3 ELSE force_field[FirstOf(ks)].force

\* two force fields with different nonzero forces share a corner, which holds
\* the first one's
SharedCornerKeepsFirst ==
    /\ pc = "input"
    /\ Variant = "UNet"
    /\ \E node \in 0 .. nb_nodes_regular_grid - 1 :
           /\ Reaches(1, node)
           /\ Reaches(2, node)
           /\ ~NormIsZero(force_field[1].force)
           /\ ~NormIsZero(force_field[2].force)
           /\ force_field[1].force # force_field[2].force
           /\ input_arg[1][node] = force_field[1].force

\* C5: in every step, in both environments, compute_input returns an array of
\* the input shape declared at initialization and compute_output one of the
\* declared output shape, and the sample sent has these shapes.
ShapeInvariance ==
    /\ phase = "Stepping" => DeclaredInputShape # None /\ DeclaredOutputShape # None
    /\ input_arg # None => shape(input_arg[1]) = DeclaredInputShape
    /\ output_arg # None => shape(output_arg[1]) = DeclaredOutputShape
    /\ training_data # None =>
           /\ shape(training_data[1].input) = DeclaredInputShape
           /\ shape(training_data[1].ground_truth) = DeclaredOutputShape

\* the coincident environment computed both arrays, of different shapes
BothArraysComputed ==
    /\ pc = "output"
    /\ Variant = "FC"
    /\ shape(input_arg[1]) = input_size
    /\ shape(output_arg[1]) = output_size
    /\ input_size # output_size

\* C6: when the prediction applied is the array compute_output returns, the
\* grid-mapped apply_prediction sets each node of the prediction model to its
\* rest position plus the displacement of the same node of the ground-truth
\* model.
GridRoundTrip ==
    [][/\ pc = "prediction"
       /\ Variant = "UNet"
       /\ prediction[1] = Flatten(UNet_compute_output)
       => \A i \in DOMAIN n_rest_position :
              n_position'[i] = Add3(n_rest_position[i],
                                    Sub3(f_position[i], f_rest_position[i]))]_vars

\* the ground truth came back and was applied: the prediction model took the
\* displacement of a displaced node
RoundTripDone ==
    /\ pc = "idle"
    /\ Variant = "UNet"
    /\ prediction # None
    /\ prediction[1] = Flatten(UNet_compute_output)
    /\ step_log[Len(step_log)] = "apply_prediction"
    /\ \E i \in DOMAIN f_position : f_position[i] # f_rest_position[i]
    /\ \A i \in DOMAIN n_position : Sub3(n_position[i], n_rest_position[i])
                                        = Sub3(f_position[i], f_rest_position[i])

\* C7: apply_prediction with a prediction whose flat length is not the product
\* of the declared output shape fails, and leaves the position buffer of the
\* prediction model as it was.
PredictionLengthChecked ==
    [][pc = "prediction" /\ Size(prediction[1]) # product(DeclaredOutputShape)
       => error' = Some("ValueError") /\ n_position' = n_position]_vars

\* a prediction of a wrong length was refused
WrongLengthRefused ==
    /\ error = Some("ValueError")
    /\ phase = "ShuttingDown"
    /\ prediction # None
    /\ Size(prediction[1]) # product(DeclaredOutputShape)

Lists(k, node) ==
    \E j \in DOMAIN force_field[k].indices : force_field[k].indices[j] = node

\* C10: in the coincident compute_input a surface node listed by force fields
\* holds the force the last of them in the list gives it, and a node listed by
\* none holds zero.
LastWriterWins ==
    pc = "input" /\ Variant = "FC" =>
        \A node \in 0 .. input_size[1] - 1 :
            LET ks == {k \in DOMAIN force_field : Lists(k, node)}
                last == force_field[LastOf(ks)]
                js == {j \in DOMAIN last.indices : last.indices[j] = node}
            IN  input_arg[1][node] =
                    IF ks = {} THEN Zero3 ELSE last.forces[LastOf(js)]

\* a node listed by two force fields holds the nonzero force of the second,
\* after a different nonzero force of the first, and an unlisted node holds zero
SharedNodeKeepsLast ==
    /\ pc = "input"
    /\ Variant = "FC"
    /\ \E node \in 0 .. input_size[1] - 1 :
           /\ Lists(1, node)
           /\ Lists(2, node)
           /\ \E j \in DOMAIN force_field[1].indices :
                  /\ force_field[1].indices[j] = node
                  /\ ~NormIsZero(force_field[1].forces[j])
                  /\ force_field[1].forces[j] # input_arg[1][node]
           /\ ~NormIsZero(input_arg[1][node])
    /\ \E node \in 0 .. input_size[1] - 1 :
           /\ ~Lists(1, node)
           /\ ~Lists(2, node)
           /\ input_arg[1][node] = Zero3

====
